---- MODULE Spec2Model ----
(***************************************************************************)
(* Model of boost::beast::json::basic_parser<Derived> as found in          *)
(* include/boost/beast/_experimental/json/impl/basic_parser.hpp.           *)
(*                                                                         *)
(* The parser keeps a stack of states (st_stack_).  write(buffer, ec)      *)
(* runs a switch on the top of the stack inside a `loop:` label; one       *)
(* pass from `loop:` to the next `goto loop`, `break` or `return` is one   *)
(* evaluation of Dispatch.  The sink (Derived) records the callbacks it    *)
(* receives in `events`; any one of its first MaxFail callbacks may set    *)
(* the error, and failAt remembers which one did (0 while none has).       *)
(***************************************************************************)
EXTENDS Naturals, Integers, Sequences, FiniteSets, TLC

VARIABLES
    doc,        \* the byte string the caller is going to feed
    fed,        \* number of bytes of doc handed to write so far
    nwrites,    \* number of write(buffer, ec) calls made so far
    ndebug,     \* TRUE when built with NDEBUG (BOOST_ASSERT compiled out)
    failAt,     \* the callback at which the sink set the error, 0 = none yet
    st_stack_,  \* basic_parser::st_stack_
    events,     \* callbacks the sink has received, in order
    evpos,      \* evpos[i]: bytes of the input consumed when events[i] came
    ec,         \* the caller's error_code: "ok", "syntax" or "sink"
    pc,         \* "idle", "loop", "writev", "eof" or "aborted"
    buf,        \* the buffer of the write call in progress
    base,       \* number of bytes written before the call in progress
    p,          \* cursor of the write call in progress, offset from p0
    snap,       \* <<p, stack>> at the moment a sink callback failed
    trap,       \* "none", or the assertion / out-of-range read that fired
    bufs,       \* buffers of a write(buffers, ec) call still to be written
    vcall       \* what a write(buffers, ec) call started from

vars == <<doc, fed, nwrites, ndebug, failAt, st_stack_, events, evpos, ec,
          pc, buf, base, p, snap, trap, bufs, vcall>>

----------------------------------------------------------------------------
(* Bounds *)

MaxDocLen == 3      \* generated documents have at most this many bytes
MaxWrites == 5      \* write(buffer, ec) calls per parser instance
MaxBuffers == 2     \* buffers in one write(buffers, ec) call
MaxFail == 2        \* only the sink's first MaxFail callbacks may fail

----------------------------------------------------------------------------
(* Input *)

DocAlphabet == {"{", "}", " "}

RECURSIVE SeqsUpTo(_, _)
SeqsUpTo(S, n) ==
    IF n = 0 THEN {<<>>}
    ELSE LET shorter == SeqsUpTo(S, n - 1)
         IN  shorter \cup {Append(s, x) : s \in shorter, x \in S}

NamedDocs ==
    { <<"t","r","u","e">>, <<"f","a","l","s","e">>, <<"n","u","l","l">>,
      <<"f","a","l","s","e"," ">>, <<" ","n","u","l","l">>,
      <<"t","r","u","x">>, <<"f","a","l","s","x">>,
      <<"t","r","u","e","x">>,
      <<"{","\t","\r","}">>, <<"{","\n","t">>,
      <<"[","]">>, <<"[","0","]">>,
      <<"0">>, <<"0","1">>, <<"0",".","5">>, <<"-","1">>,
      <<"\"","a","\"">>,
      <<"{","\"","\"",":","0","}">>,
      <<":">>, <<",">>, <<"x">> }

Docs == SeqsUpTo(DocAlphabet, MaxDocLen) \cup NamedDocs

----------------------------------------------------------------------------
(* detail::parser_base *)

is_ws(c) == c \in {" ", "\r", "\n", "\t"}

is_digit(c) == c \in {"0", "1", "2", "3", "4", "5", "6", "7", "8", "9"}

----------------------------------------------------------------------------
(* The state stack.  A configuration c of a write call in progress is a    *)
(* record [buf, base, p, stack, ec, events, evpos, ret, snap, trap,        *)
(* failAt]; ret is TRUE once the call has left the switch (break or        *)
(* return); failAt is the callback the sink fails at (0 = none); base is   *)
(* the number of bytes written by earlier calls, and evpos[i] the number   *)
(* of bytes of the whole input consumed when events[i] was delivered.      *)

current_state(stack) ==
    IF stack # <<>> THEN stack[Len(stack)] ELSE "end"

push_state(c, st) == [c EXCEPT !.stack = Append(@, st)]

pop_state(c) ==
    IF c.stack = <<>>
    THEN [c EXCEPT !.trap = "pop_state", !.ret = TRUE]
    ELSE [c EXCEPT !.stack = SubSeq(@, 1, Len(@) - 1)]

replace_state(c, st) ==
    IF c.stack = <<>>
    THEN [c EXCEPT !.trap = "replace_state", !.ret = TRUE]
    ELSE [c EXCEPT !.stack[Len(c.stack)] = st]

Advance(c, k) == [c EXCEPT !.p = @ + k]

Exhausted(c) == c.p >= Len(c.buf)

Byte(c, i) == c.buf[c.p + 1 + i]

Break(c) == [c EXCEPT !.ret = TRUE]

SyntaxError(c) == [c EXCEPT !.ec = "syntax", !.ret = TRUE]

\* `if(ec) return;` after a callback, else carry on with Rest
IfEcReturn(c, rest) == IF c.ec # "ok" THEN [c EXCEPT !.ret = TRUE] ELSE rest

(* impl().on_xxx(ec): the sink records the call and, if this is the call   *)
(* it fails at, sets ec.                                                   *)
Callback(c, ev) ==
    LET fails == (Len(c.events) + 1 = c.failAt)
    IN  [c EXCEPT !.events = Append(@, ev),
                  !.evpos = Append(@, c.base + c.p),
                  !.ec = IF fails THEN "sink" ELSE @,
                  !.snap = IF fails THEN <<c.p, c.stack>> ELSE @]

----------------------------------------------------------------------------
(* write(buffer, ec): the arms of switch(current_state()).  Each operator  *)
(* takes the configuration at `loop:` (or at the case label it falls       *)
(* through to) and yields the configuration at the next `goto loop`,       *)
(* `break` or `return`.                                                    *)

\* variant: json is popped before the element state is put in its place
CaseJson_PopFirst(c) == replace_state(pop_state(c), "element")

CaseJson(c) == replace_state(c, "element")

CaseElement(c) ==
    push_state(push_state(replace_state(c, "ws"), "value"), "ws")

\* variant: the whitespace state is popped when the chunk runs out
RECURSIVE CaseWs_PopsAtEnd(_)
CaseWs_PopsAtEnd(c) ==
    IF Exhausted(c) THEN Break(pop_state(c))
    ELSE IF ~ is_ws(Byte(c, 0)) THEN pop_state(c)
    ELSE CaseWs_PopsAtEnd(Advance(c, 1))

\* variant: the byte that ends the whitespace run is consumed with it
RECURSIVE CaseWs_ConsumesNext(_)
CaseWs_ConsumesNext(c) ==
    IF Exhausted(c) THEN Break(c)
    ELSE IF ~ is_ws(Byte(c, 0)) THEN pop_state(Advance(c, 1))
    ELSE CaseWs_ConsumesNext(Advance(c, 1))

\* variant: the byte that ends the whitespace run sends the loop round again
\* with ws still on top
RECURSIVE CaseWs_NoPop(_)
CaseWs_NoPop(c) ==
    IF Exhausted(c) THEN Break(c)
    ELSE IF ~ is_ws(Byte(c, 0)) THEN c
    ELSE CaseWs_NoPop(Advance(c, 1))

\* while(p < p1) { if(! is_ws(*p)) { pop_state(); goto loop; } ++p; } break;
RECURSIVE CaseWs(_)
CaseWs(c) ==
    IF Exhausted(c) THEN Break(c)
    ELSE IF ~ is_ws(Byte(c, 0)) THEN pop_state(c)
    ELSE CaseWs(Advance(c, 1))

\* variant: on_true's error is not looked at before the pop
CaseTrue4_NoCheck(c) == pop_state(Callback(c, "on_true"))

\* -- true --
CaseTrue4(c) ==
    LET c1 == Callback(c, "on_true")
    IN  IfEcReturn(c1, pop_state(c1))

CaseTrue3(c) ==
    IF Exhausted(c) THEN Break(c)
    ELSE IF Byte(c, 0) # "e" THEN SyntaxError(c)
    ELSE CaseTrue4(replace_state(Advance(c, 1), "true_4"))

\* variant: no byte left after `tr` is taken as a byte that is not `u`
CaseTrue2_EndIsError(c) ==
    IF Exhausted(c) \/ Byte(c, 0) # "u" THEN SyntaxError(c)
    ELSE CaseTrue3(replace_state(Advance(c, 1), "true_3"))

CaseTrue2(c) ==
    IF Exhausted(c) THEN Break(c)
    ELSE IF Byte(c, 0) # "u" THEN SyntaxError(c)
    ELSE CaseTrue3(replace_state(Advance(c, 1), "true_3"))

CaseTrue1(c) ==
    IF Exhausted(c) THEN Break(c)
    ELSE IF Byte(c, 0) # "r" THEN SyntaxError(c)
    ELSE CaseTrue2(replace_state(Advance(c, 1), "true_2"))

\* -- false --
CaseFalse5(c) ==
    LET c1 == Callback(c, "on_false")
    IN  IfEcReturn(c1, pop_state(c1))

CaseFalse4(c) ==
    IF Exhausted(c) THEN Break(c)
    ELSE IF Byte(c, 0) # "e" THEN SyntaxError(c)
    ELSE CaseFalse5(replace_state(Advance(c, 1), "false_5"))

CaseFalse3(c) ==
    IF Exhausted(c) THEN Break(c)
    ELSE IF Byte(c, 0) # "s" THEN SyntaxError(c)
    ELSE CaseFalse4(replace_state(Advance(c, 1), "false_4"))

CaseFalse2(c) ==
    IF Exhausted(c) THEN Break(c)
    ELSE IF Byte(c, 0) # "l" THEN SyntaxError(c)
    ELSE CaseFalse3(replace_state(Advance(c, 1), "false_3"))

CaseFalse1(c) ==
    IF Exhausted(c) THEN Break(c)
    ELSE IF Byte(c, 0) # "a" THEN SyntaxError(c)
    ELSE CaseFalse2(replace_state(Advance(c, 1), "false_2"))

\* -- null --
CaseNull4(c) ==
    LET c1 == Callback(c, "on_null")
    IN  IfEcReturn(c1, pop_state(c1))

CaseNull3(c) ==
    IF Exhausted(c) THEN Break(c)
    ELSE IF Byte(c, 0) # "l" THEN SyntaxError(c)
    ELSE CaseNull4(replace_state(Advance(c, 1), "null_4"))

CaseNull2(c) ==
    IF Exhausted(c) THEN Break(c)
    ELSE IF Byte(c, 0) # "l" THEN SyntaxError(c)
    ELSE CaseNull3(replace_state(Advance(c, 1), "null_3"))

CaseNull1(c) ==
    IF Exhausted(c) THEN Break(c)
    ELSE IF Byte(c, 0) # "u" THEN SyntaxError(c)
    ELSE CaseNull2(replace_state(Advance(c, 1), "null_2"))

\* -- value: the literal arms --
\* variant: the slow path counts the `t` as two matched bytes
ValueTrue_OffByOne(c) ==
    IF c.p + 4 <= Len(c.buf)
    THEN IF Byte(c, 1) # "r" \/ Byte(c, 2) # "u" \/ Byte(c, 3) # "e"
         THEN SyntaxError(c)
         ELSE replace_state(Advance(c, 4), "true_4")
    ELSE replace_state(Advance(c, 1), "true_2")

\* case 't': fast path when p + 4 <= p1, else one byte and true_1
ValueTrue(c) ==
    IF c.p + 4 <= Len(c.buf)
    THEN IF Byte(c, 1) # "r" \/ Byte(c, 2) # "u" \/ Byte(c, 3) # "e"
         THEN SyntaxError(c)
         ELSE replace_state(Advance(c, 4), "true_4")
    ELSE replace_state(Advance(c, 1), "true_1")

\* case 'f': fast path when p + 5 <= p1; the cursor moves by 4 (p = p + 4)
ValueFalse(c) ==
    IF c.p + 5 <= Len(c.buf)
    THEN IF Byte(c, 1) # "a" \/ Byte(c, 2) # "l" \/ Byte(c, 3) # "s"
            \/ Byte(c, 4) # "e"
         THEN SyntaxError(c)
         ELSE replace_state(Advance(c, 4), "false_5")
    ELSE replace_state(Advance(c, 1), "false_1")

\* case 'n'
ValueNull(c) ==
    IF c.p + 4 <= Len(c.buf)
    THEN IF Byte(c, 1) # "u" \/ Byte(c, 2) # "l" \/ Byte(c, 3) # "l"
         THEN SyntaxError(c)
         ELSE replace_state(Advance(c, 4), "null_4")
    ELSE replace_state(Advance(c, 1), "null_1")

\* case '{': ++p; replace_state(object); on_object_begin(ec); if(ec) return;
ValueObject(c) ==
    LET c1 == Callback(replace_state(Advance(c, 1), "object"), "on_object_begin")
    IN  IfEcReturn(c1, c1)

\* case '[': ++p; replace_state(array_); on_array_begin(ec); goto loop;
ValueArray(c) ==
    Callback(replace_state(Advance(c, 1), "array_"), "on_array_begin")

\* case '"': ++p; replace_state(string); on_string_begin(ec); goto loop;
ValueString(c) ==
    Callback(replace_state(Advance(c, 1), "string"), "on_string_begin")

\* case '0' .. '9': ++p; replace_state(number); goto loop;
ValueNumber(c) == replace_state(Advance(c, 1), "number")

CaseValue(c) ==
    IF Exhausted(c) THEN Break(c)
    ELSE LET b == Byte(c, 0)
         IN  CASE b = "{"  -> ValueObject(c)
               [] b = "["  -> ValueArray(c)
               [] b = "\"" -> ValueString(c)
               [] is_digit(b) -> ValueNumber(c)
               [] b = "t"  -> ValueTrue(c)
               [] b = "f"  -> ValueFalse(c)
               [] b = "n"  -> ValueNull(c)
               [] OTHER    -> SyntaxError(c)

\* -- object --
CaseMember(c) ==
    push_state(push_state(push_state(push_state(
        replace_state(c, "members"), "element"), "colon"), "ws"), "string")

\* variant: whitespace after `{` is not skipped
CaseObject_NoWs(c) ==
    IF Exhausted(c) THEN Break(c)
    ELSE IF Byte(c, 0) = "}"
         THEN LET c1 == Callback(Advance(c, 1), "on_object_end")
              IN  IfEcReturn(c1, pop_state(c1))
    ELSE CaseMember(replace_state(c, "member"))

\* variant: the object state stays on the stack after `}`
CaseObject_NoPop(c) ==
    IF Exhausted(c) THEN Break(c)
    ELSE IF is_ws(Byte(c, 0)) THEN push_state(Advance(c, 1), "ws")
    ELSE IF Byte(c, 0) = "}"
         THEN LET c1 == Callback(Advance(c, 1), "on_object_end")
              IN  IfEcReturn(c1, c1)
    ELSE CaseMember(replace_state(c, "member"))

CaseObject(c) ==
    IF Exhausted(c) THEN Break(c)
    ELSE IF is_ws(Byte(c, 0)) THEN push_state(Advance(c, 1), "ws")
    ELSE IF Byte(c, 0) = "}"
         THEN LET c1 == Callback(Advance(c, 1), "on_object_end")
              IN  IfEcReturn(c1, pop_state(c1))
    ELSE CaseMember(replace_state(c, "member"))

\* if(*p != '}') break; ++p; on_object_end(ec); if(ec) return; break;
\* *p is read without comparing p with p1.
CaseMembers(c) ==
    IF Exhausted(c) THEN [c EXCEPT !.trap = "read_past_end", !.ret = TRUE]
    ELSE IF Byte(c, 0) # "}" THEN Break(c)
    ELSE Break(Callback(Advance(c, 1), "on_object_end"))

CaseColon(c) ==
    IF Exhausted(c) THEN Break(c)
    ELSE IF Byte(c, 0) # ":" THEN SyntaxError(c)
    ELSE pop_state(Advance(c, 1))

\* -- placeholders --
CaseArray(c) == Break(c)

\* variant: the string state is left at once, as if the string had ended
CaseString_Pops(c) == pop_state(c)

CaseString(c) == Break(c)

CaseNumber(c) == Break(c)

CaseEnd(c) == Break(c)

Dispatch(c) ==
    LET st == current_state(c.stack)
    IN  CASE st = "json"    -> CaseJson(c)
          [] st = "element" -> CaseElement(c)
          [] st = "ws"      -> CaseWs(c)
          [] st = "value"   -> CaseValue(c)
          [] st = "object"  -> CaseObject(c)
          [] st = "member"  -> CaseMember(c)
          [] st = "members" -> CaseMembers(c)
          [] st = "colon"   -> CaseColon(c)
          [] st = "array_"  -> CaseArray(c)
          [] st = "string"  -> CaseString(c)
          [] st = "number"  -> CaseNumber(c)
          [] st = "true_1"  -> CaseTrue1(c)
          [] st = "true_2"  -> CaseTrue2(c)
          [] st = "true_3"  -> CaseTrue3(c)
          [] st = "true_4"  -> CaseTrue4(c)
          [] st = "false_1" -> CaseFalse1(c)
          [] st = "false_2" -> CaseFalse2(c)
          [] st = "false_3" -> CaseFalse3(c)
          [] st = "false_4" -> CaseFalse4(c)
          [] st = "false_5" -> CaseFalse5(c)
          [] st = "null_1"  -> CaseNull1(c)
          [] st = "null_2"  -> CaseNull2(c)
          [] st = "null_3"  -> CaseNull3(c)
          [] st = "null_4"  -> CaseNull4(c)
          [] OTHER          -> CaseEnd(c)

----------------------------------------------------------------------------
(* Whole calls as functions of the state s = [stack, events, evpos, snap,  *)
(* failAt] of parser and sink they start from.                             *)

\* basic_parser(): push_state(state::json)
Constructed == [stack |-> <<"json">>, events |-> <<>>, evpos |-> <<>>,
                snap |-> <<>>, failAt |-> 0]

\* p = buffer.data(); ec.assign(0, ...); BOOST_ASSERT(current_state() != end);
Enter(s, b, off) ==
    LET fires == (~ ndebug) /\ current_state(s.stack) = "end"
    IN  [buf |-> b, base |-> off, p |-> 0, stack |-> s.stack, ec |-> "ok",
         events |-> s.events, evpos |-> s.evpos, snap |-> s.snap,
         failAt |-> s.failAt, ret |-> fires, trap |-> IF fires THEN "write_entry" ELSE "none"]

RECURSIVE RunLoop(_)
RunLoop(c) == IF c.ret THEN c ELSE RunLoop(Dispatch(c))

\* write(buffer, ec) from entry to return
WriteBuffer(s, b, off) == RunLoop(Enter(s, b, off))

\* variant: only the untouched parser is reported as truncated
write_eof_Lenient(stack) ==
    IF current_state(stack) # "json" THEN "ok" ELSE "syntax"

\* write_eof(ec)
write_eof(stack) ==
    IF current_state(stack) \in {"ws", "end"} THEN "ok" ELSE "syntax"

\* variant: the loop over the buffers does not look at ec
AfterBuffer_NoCheck(e) == "writev"

\* write(buffers, ec): `if(ec) return;` after each write(b, ec)
AfterBuffer(e) == IF e # "ok" THEN "idle" ELSE "writev"

----------------------------------------------------------------------------
(* The caller.  One parser instance is fed slices of doc, each by a        *)
(* write(buffer, ec) or inside a write(buffers, ec), and then at most one  *)
(* write_eof(ec).  After an error the instance is not used again.          *)

Slice(from, k) == SubSeq(doc, from + 1, from + k)

RECURSIVE Sum(_)
Sum(ks) == IF ks = <<>> THEN 0 ELSE Head(ks) + Sum(Tail(ks))

RECURSIVE Slices(_, _)
Slices(from, ks) ==
    IF ks = <<>> THEN <<>>
    ELSE <<Slice(from, Head(ks))>> \o Slices(from + Head(ks), Tail(ks))

NoCall == [state |-> "none", stack |-> <<>>, events |-> <<>>, evpos |-> <<>>,
           snap |-> <<>>, ec |-> "ok", bufs |-> <<>>, base |-> 0, nwrites |-> 0]

Init ==
    /\ doc \in Docs
    /\ ndebug \in BOOLEAN
    /\ failAt = 0
    /\ fed = 0
    /\ nwrites = 0
    /\ st_stack_ = Constructed.stack
    /\ events = <<>>
    /\ evpos = <<>>
    /\ ec = "ok"
    /\ pc = "idle"
    /\ buf = <<>>
    /\ p = 0
    /\ base = 0
    /\ snap = <<>>
    /\ trap = "none"
    /\ bufs = <<>>
    /\ vcall = NoCall

Current ==
    [buf |-> buf, base |-> base, p |-> p, stack |-> st_stack_, ec |-> ec,
     events |-> events, evpos |-> evpos, snap |-> snap, ret |-> FALSE,
     trap |-> trap, failAt |-> failAt]

\* the variables a configuration holds, and where control is next
Becomes(c, next) ==
    /\ buf' = c.buf
    /\ base' = c.base
    /\ p' = c.p
    /\ st_stack_' = c.stack
    /\ ec' = c.ec
    /\ events' = c.events
    /\ evpos' = c.evpos
    /\ snap' = c.snap
    /\ trap' = c.trap
    /\ failAt' = c.failAt
    /\ pc' = IF c.trap # "none" THEN "aborted" ELSE next

State == [stack |-> st_stack_, events |-> events, evpos |-> evpos,
          snap |-> snap, failAt |-> failAt]

\* what the sink may do with its next callback: fail (f = its number) or
\* not (f = 0); a sink that has failed stays as it is
SinkChoices ==
    IF failAt # 0 THEN {failAt}
    ELSE {0} \cup ({Len(events) + 1} \cap (1 .. MaxFail))

\* the caller calls write(buffer, ec) with the next k bytes of doc
Write(k) ==
    /\ pc = "idle"
    /\ ec = "ok"
    /\ nwrites < MaxWrites
    /\ Becomes(Enter(State, Slice(fed, k), fed), "loop")
    /\ fed' = fed + k
    /\ nwrites' = nwrites + 1
    /\ vcall' = NoCall
    /\ UNCHANGED <<doc, ndebug, bufs>>

\* one pass of write's switch, from `loop:` to goto loop / break / return
Loop ==
    /\ pc = "loop"
    /\ \E f \in SinkChoices :
          LET c == Dispatch([Current EXCEPT !.failAt = f])
          IN  /\ (f # 0) => c.ec = "sink"
              /\ Becomes(c, IF ~ c.ret THEN "loop"
                            ELSE IF vcall.state = "running"
                                 THEN AfterBuffer(c.ec)
                            ELSE "idle")
    /\ vcall' = IF pc' = "idle" /\ vcall.state = "running"
                THEN [vcall EXCEPT !.state = "returned"] ELSE vcall
    /\ UNCHANGED <<doc, fed, nwrites, ndebug, bufs>>

\* the caller calls write(buffers, ec) with the next bytes of doc cut as ks
WriteV(ks) ==
    /\ pc = "idle"
    /\ ec = "ok"
    /\ nwrites + Len(ks) <= MaxWrites
    /\ bufs' = Slices(fed, ks)
    /\ vcall' = [state |-> "running", stack |-> st_stack_, events |-> events,
                 evpos |-> evpos, snap |-> snap, ec |-> ec,
                 bufs |-> Slices(fed, ks),
                 base |-> fed, nwrites |-> nwrites]
    /\ pc' = "writev"
    /\ UNCHANGED <<doc, fed, nwrites, ndebug, failAt, st_stack_, events,
                   evpos, ec, buf, base, p, snap, trap>>

\* for(auto const b : buffers_range(buffers)) write(b, ec);
WriteVNext ==
    /\ pc = "writev"
    /\ bufs # <<>>
    /\ Becomes(Enter(State, Head(bufs), fed), "loop")
    /\ bufs' = Tail(bufs)
    /\ fed' = fed + Len(Head(bufs))
    /\ nwrites' = nwrites + 1
    /\ UNCHANGED <<doc, ndebug, vcall>>

\* the range is finished: write(buffers, ec) returns
WriteVEnd ==
    /\ pc = "writev"
    /\ bufs = <<>>
    /\ pc' = "idle"
    /\ vcall' = [vcall EXCEPT !.state = "returned"]
    /\ UNCHANGED <<doc, fed, nwrites, ndebug, failAt, st_stack_, events,
                   evpos, ec, buf, base, p, snap, trap, bufs>>

\* the caller signals the end of the input
WriteEof ==
    /\ pc = "idle"
    /\ ec = "ok"
    /\ ec' = write_eof(st_stack_)
    /\ pc' = "eof"
    /\ vcall' = NoCall
    /\ UNCHANGED <<doc, fed, nwrites, ndebug, failAt, st_stack_, events,
                   evpos, buf, base, p, snap, trap, bufs>>

\* the ways to cut some of the remaining bytes into at most MaxBuffers buffers
BufLens ==
    IF pc = "idle" /\ ec = "ok"
    THEN {ks \in SeqsUpTo(0 .. (Len(doc) - fed), MaxBuffers) :
              Sum(ks) <= Len(doc) - fed}
    ELSE {}

Next ==
    \/ \E k \in 0 .. (Len(doc) - fed) : Write(k)
    \/ Loop
    \/ \E ks \in BufLens : WriteV(ks)
    \/ WriteVNext
    \/ WriteVEnd
    \/ WriteEof

Spec == Init /\ [][Next]_vars

----------------------------------------------------------------------------
(* Vocabulary of the properties *)

\* the bytes handed to write so far
Input == SubSeq(doc, 1, fed)

\* one write of d on a freshly constructed parser, with the sink as it
\* has behaved
Whole(d) == WriteBuffer([Constructed EXCEPT !.failAt = failAt], d, 0)

T_true == <<"t", "r", "u", "e">>
T_false == <<"f", "a", "l", "s", "e">>
T_null == <<"n", "u", "l", "l">>

SinkNeverFails == failAt = 0

Returned == pc = "idle" /\ nwrites > 0

----------------------------------------------------------------------------
\* C1: whatever the cuts, the sink has received the events a single write of
\* the same bytes delivers: after every returned call, after write_eof and
\* when the entry assertion stopped the program, events equals the events of
\* one write of the bytes handed over so far; and when a write reported an
\* error (the caller stops there) it equals the events of one write of the
\* whole document.
ChunkingInvariance ==
    /\ pc \in {"idle", "writev", "eof", "aborted"}
          => events = Whole(Input).events
    /\ (pc = "idle" /\ ec # "ok") => events = Whole(doc).events

\* "tr" then "ue", then write_eof: one on_true
ChunkingWitness ==
    /\ pc = "eof" /\ ec = "ok"
    /\ Input = T_true /\ nwrites = 2 /\ buf = <<"u", "e">>
    /\ events = <<"on_true">>

\* C2: a literal cut into two or more chunks is reported without error by
\* exactly one event of its kind, as when it is written in one chunk.
LiteralSplit ==
    \A lit \in {<<T_true, "on_true">>, <<T_false, "on_false">>,
                <<T_null, "on_null">>} :
        (Returned /\ SinkNeverFails /\ Input = lit[1] /\ nwrites >= 2)
            => /\ ec = "ok"
               /\ events = <<lit[2]>>
               /\ ec = Whole(lit[1]).ec
               /\ events = Whole(lit[1]).events

\* "fals" then "e"
LiteralSplitWitness ==
    /\ Returned /\ SinkNeverFails
    /\ Input = T_false /\ nwrites = 2 /\ buf = <<"e">>
    /\ events = <<"on_false">> /\ ec = "ok"

\* C3 (as stated): write_eof reports no error only if a top-level value has
\* been parsed to its terminal event and only whitespace followed it.
TerminalEvents == {"on_object_end", "on_true", "on_false", "on_null"}

CompleteDocument ==
    \E i \in 1 .. Len(events) :
        /\ events[i] \in TerminalEvents
        /\ \A j \in (evpos[i] + 1) .. fed : is_ws(doc[j])

EofOnlyAfterCompleteDocument ==
    (pc = "eof" /\ ec = "ok") => CompleteDocument

\* C4: write_eof called with anything but ws or end on top of the stack
\* reports a syntax error.
TruncationDetected ==
    (pc = "eof" /\ current_state(st_stack_) \notin {"ws", "end"})
        => ec = "syntax"

\* "tr" then write_eof
TruncationWitness ==
    /\ pc = "eof" /\ ec = "syntax"
    /\ current_state(st_stack_) = "true_2"

\* C5: `{`, optional whitespace, `}`: on_object_begin then on_object_end and
\* nothing else, no error, the stack is left as <<ws>> and write_eof succeeds.
IsEmptyObject(d) ==
    /\ Len(d) >= 2
    /\ d[1] = "{"
    /\ d[Len(d)] = "}"
    /\ \A i \in 2 .. (Len(d) - 1) : is_ws(d[i])

EmptyObject ==
    (SinkNeverFails /\ IsEmptyObject(Input) /\ pc \in {"idle", "eof"})
        => /\ ec = "ok"
           /\ events = <<"on_object_begin", "on_object_end">>
           /\ st_stack_ = <<"ws">>

EmptyObjectWitness ==
    /\ pc = "eof" /\ ec = "ok"
    /\ Input = <<"{", "\t", "\r", "}">> /\ nwrites = 2 /\ Len(buf) = 3
    /\ events = <<"on_object_begin", "on_object_end">>

\* C6 (as stated): `[]` gives on_array_begin then on_array_end, and write_eof
\* then reports no error.
EmptyArray ==
    (SinkNeverFails /\ Input = <<"[", "]">> /\ pc \in {"idle", "eof"})
        => /\ events = <<"on_array_begin", "on_array_end">>
           /\ ec = "ok"

\* C7 (as stated): `01` then write_eof is a syntax error; `0` and `0.5` then
\* write_eof are not.
LeadingZero ==
    /\ (pc = "eof" /\ Input = <<"0", "1">>) => ec = "syntax"
    /\ (pc = "eof" /\ Input \in {<<"0">>, <<"0", ".", "5">>}) => ec = "ok"

\* C8: once a sink callback has set the error, the cursor, the stack and the
\* number of callbacks stay as they were at that callback, and the error
\* stays set until and after the call returns.
SinkAbort ==
    snap # <<>>
        => /\ ec = "sink"
           /\ p = snap[1]
           /\ st_stack_ = snap[2]
           /\ Len(events) = failAt

\* on_true failed with bytes of the chunk left over
SinkAbortWitness ==
    /\ pc = "idle" /\ ec = "sink"
    /\ snap # <<>> /\ p < Len(buf)
    /\ events[Len(events)] = "on_true"

\* C9: write(buffers, ec) ends as the single-buffer writes of its buffers, in
\* order and up to the first that reports an error, end: same stack, events,
\* error and number of buffers written.
RECURSIVE SeqWrites(_, _, _, _, _)
SeqWrites(s, e, bs, off, n) ==
    IF bs = <<>>
    THEN [stack |-> s.stack, events |-> s.events, ec |-> e, calls |-> n]
    ELSE LET c == WriteBuffer(s, Head(bs), off)
         IN  IF c.ec # "ok"
             THEN [stack |-> c.stack, events |-> c.events, ec |-> c.ec,
                   calls |-> n + 1]
             ELSE SeqWrites([stack |-> c.stack, events |-> c.events,
                             evpos |-> c.evpos, snap |-> c.snap,
                             failAt |-> c.failAt],
                            c.ec, Tail(bs), off + Len(Head(bs)), n + 1)

BufferSequenceWrite ==
    (pc = "idle" /\ vcall.state = "returned")
        => LET r == SeqWrites([stack |-> vcall.stack, events |-> vcall.events,
                               evpos |-> vcall.evpos, snap |-> vcall.snap,
                               failAt |-> failAt],
                              vcall.ec, vcall.bufs, vcall.base, 0)
           IN  /\ st_stack_ = r.stack
               /\ events = r.events
               /\ ec = r.ec
               /\ nwrites - vcall.nwrites = r.calls

\* the first of two buffers failed and the second was left alone
BufferSequenceWitness ==
    /\ pc = "idle" /\ vcall.state = "returned"
    /\ ec # "ok" /\ Len(vcall.bufs) = 2 /\ bufs # <<>>
    /\ nwrites - vcall.nwrites = 1

\* C10: every event is due to a token of its kind that the cursor was in or
\* just behind, the tokens of successive events lie in document order, so no
\* token has two events, and in every prefix of events there are at least as
\* many on_object_begin as on_object_end.
Token(ev) ==
    CASE ev = "on_object_begin" -> <<"{">>
      [] ev = "on_object_end"   -> <<"}">>
      [] ev = "on_array_begin"  -> <<"[">>
      [] ev = "on_string_begin" -> <<"\"">>
      [] ev = "on_true"         -> T_true
      [] ev = "on_false"        -> T_false
      [] ev = "on_null"         -> T_null

\* where in doc the token of events[i] starts (offsets from 0)
Starts(i) ==
    LET tok == Token(events[i])
    IN  {s \in 0 .. (Len(doc) - Len(tok)) :
            /\ SubSeq(doc, s + 1, s + Len(tok)) = tok
            /\ s < evpos[i]
            /\ evpos[i] <= s + Len(tok)}

Count(ev, n) == Cardinality({i \in 1 .. n : events[i] = ev})

ExhaustedOrComplete ==
    (Returned /\ ec = "ok")
        => \/ p = Len(buf)
           \/ st_stack_ \in {<<"ws">>, <<>>}

\* the returns of C11 that leave bytes of an unfinished value unread are
\* those of the placeholder arms
Placeholders == {"array_", "string", "number"}

ExhaustedOrCompleteButPlaceholders ==
    (Returned /\ ec = "ok" /\ current_state(st_stack_) \notin Placeholders)
        => \/ p = Len(buf)
           \/ st_stack_ \in {<<"ws">>, <<>>}

\* C12 (as stated): when value sees the first byte of a literal with the whole
\* literal in the chunk and the bytes match, that pass advances the cursor by
\* the literal's length and leaves the literal's terminal sub-state on top; so
\* a literal written in one chunk ends with the cursor and the stack of the
\* same literal written one byte at a time.
Literals ==
    {<<T_true, "true_4">>, <<T_false, "false_5">>, <<T_null, "null_4">>}

OneByteAtATime(d) ==
    SeqWrites([Constructed EXCEPT !.failAt = 0], "ok",
              [i \in 1 .. Len(d) |-> <<d[i]>>], 0, 0)

LiteralFastPath ==
    \A lit \in Literals :
        /\ ( /\ pc = "loop"
             /\ current_state(st_stack_) = "value"
             /\ p + Len(lit[1]) <= Len(buf)
             /\ SubSeq(buf, p + 1, p + Len(lit[1])) = lit[1] )
              => LET c == CaseValue(Current)
                 IN  /\ c.p = p + Len(lit[1])
                     /\ current_state(c.stack) = lit[2]
                     /\ c.ec = "ok"
        /\ (Returned /\ SinkNeverFails /\ nwrites = 1 /\ buf = lit[1])
              => /\ p = Len(lit[1])
                 /\ st_stack_ = OneByteAtATime(lit[1]).stack

\* the same statement for true and null alone
LiteralFastPathTrueNull ==
    \A lit \in Literals \ {<<T_false, "false_5">>} :
        /\ ( /\ pc = "loop"
             /\ current_state(st_stack_) = "value"
             /\ p + Len(lit[1]) <= Len(buf)
             /\ SubSeq(buf, p + 1, p + Len(lit[1])) = lit[1] )
              => LET c == CaseValue(Current)
                 IN  /\ c.p = p + Len(lit[1])
                     /\ current_state(c.stack) = lit[2]
                     /\ c.ec = "ok"
        /\ (Returned /\ SinkNeverFails /\ nwrites = 1 /\ buf = lit[1])
              => /\ p = Len(lit[1])
                 /\ st_stack_ = OneByteAtATime(lit[1]).stack

\* C13 (as stated): in the value state a digit or `-` replaces the top state by
\* number, leaves the cursor where it is and reports no error.
NumberDispatch ==
    ( /\ pc = "loop"
      /\ current_state(st_stack_) = "value"
      /\ p < Len(buf)
      /\ (is_digit(buf[p + 1]) \/ buf[p + 1] = "-") )
        => LET c == CaseValue(Current)
           IN  /\ current_state(c.stack) = "number"
               /\ c.p = p
               /\ c.ec = "ok"

\* what the value arm does with a digit, and with `-`
NumberDispatchOfTheCode ==
    ( /\ pc = "loop"
      /\ current_state(st_stack_) = "value"
      /\ p < Len(buf) )
        => LET c == CaseValue(Current)
           IN  /\ is_digit(buf[p + 1])
                    => /\ current_state(c.stack) = "number"
                       /\ c.p = p + 1
                       /\ c.ec = ec
               /\ buf[p + 1] = "-"
                    => /\ c.ec = "syntax"
                       /\ c.p = p
                       /\ c.stack = st_stack_

\* C14 (as stated): if no earlier call reported an error, current_state() is
\* not state::end when a write call is entered (the assertion of write never
\* fires), also after the top-level value has completed and more bytes were
\* written: a stack the caller may call write on is never empty.
EntryAssertion ==
    /\ trap # "write_entry"
    /\ (pc = "idle" /\ ec = "ok") => current_state(st_stack_) # "end"

\* as long as nothing but whitespace follows the top-level value, the stack
\* keeps its trailing ws and the assertion holds
OnlyWsAfterValue ==
    \A i \in 1 .. Len(events) :
        events[i] \in TerminalEvents
            => \A j \in (evpos[i] + 1) .. fed : is_ws(doc[j])

EntryAssertionUnlessTrailingBytes ==
    (OnlyWsAfterValue /\ Input # T_false)
        => /\ trap # "write_entry"
           /\ (pc = "idle" /\ ec = "ok") => current_state(st_stack_) # "end"

\* C15: pop_state and replace_state are never called on an empty stack, and
\* write never reads the chunk at or behind its end: the cursor stays within
\* the chunk and no arm looks at a byte that is not there.
StackOperationsLegal ==
    /\ trap \notin {"pop_state", "replace_state", "read_past_end"}
    /\ p \in 0 .. Len(buf)

\* `truex`: the pops have emptied the stack, one by one, with `x` unread
StackOperationsWitness ==
    /\ pc = "idle" /\ ec = "ok" /\ trap = "none"
    /\ st_stack_ = <<>> /\ p < Len(buf)
    /\ events = <<"on_true">>

\* C16: a pass of the ws state consumes space, tab, CR and LF only, emits
\* nothing and sets no error; at the first other byte it pops ws, leaves that
\* byte unread and goes back to `loop`; when the chunk ends inside the run it
\* returns with the stack as it was, ws on top.  So whenever the bytes written
\* so far end in whitespace, the stack is the one a single write of the same
\* bytes leaves, however the run was cut.
EndsInWs(d) == d # <<>> /\ is_ws(d[Len(d)])

WhitespaceRun ==
    /\ (pc = "loop" /\ current_state(st_stack_) = "ws")
          => LET c == CaseWs(Current)
             IN  /\ \A i \in (p + 1) .. c.p : is_ws(buf[i])
                 /\ c.events = events
                 /\ c.ec = ec
                 /\ IF c.p < Len(buf)
                    THEN /\ ~ is_ws(buf[c.p + 1])
                         /\ c.stack = SubSeq(st_stack_, 1, Len(st_stack_) - 1)
                         /\ ~ c.ret
                    ELSE /\ c.ret
                         /\ c.stack = st_stack_
    /\ ( /\ Returned /\ SinkNeverFails /\ ec = "ok"
         /\ EndsInWs(Input)
         /\ \A i \in 1 .. Len(Input) : Input[i] # "f" )
          => st_stack_ = Whole(Input).stack

\* `{`, tab, CR written as three chunks: ws is still on top of object
WhitespaceRunWitness ==
    /\ Returned /\ ec = "ok" /\ nwrites = 3
    /\ Input = <<"{", "\t", "\r">> /\ buf = <<"\r">>
    /\ st_stack_ = <<"ws", "object", "ws">>

----------------------------------------------------------------------------
(* write(buffer, ec) runs to its return once it has been called: the loop  *)
(* is straight-line code on the caller's thread, so a pass that can be     *)
(* taken is taken.  Nothing obliges the caller to call again.              *)
(* The calls are those of write(buffer, ec) and write_eof; write(buffers,   *)
(* ec) is a loop of such calls over finitely many buffers.                 *)
WriteNext ==
    \/ \E k \in 0 .. (Len(doc) - fed) : Write(k)
    \/ Loop
    \/ WriteEof

FairSpec == Init /\ [][WriteNext]_vars /\ WF_vars(Loop)

\* the states a pass may push or leave on the stack, weighed so that every
\* pass that consumes no byte makes the stack lighter
Weight(st) ==
    CASE st = "object"  -> 9
      [] st = "json"    -> 5
      [] st = "element" -> 4
      [] OTHER          -> 1

RECURSIVE StackWeight(_)
StackWeight(s) ==
    IF s = <<>> THEN 0 ELSE Weight(Head(s)) + StackWeight(Tail(s))

\* C17: every write call returns: a call that is in its dispatch loop leaves
\* it, and each pass that goes back to `loop` has either consumed a byte of
\* the chunk or made the stack lighter, so the number of passes of one call
\* is bounded by the chunk and the stack it started with.
WriteTerminates ==
    /\ (pc = "loop") ~> (pc # "loop")
    /\ [][(pc = "loop" /\ pc' = "loop" /\ buf' = buf)
             => \/ p' > p
                \/ (p' = p /\ StackWeight(st_stack_') < StackWeight(st_stack_))]_vars

\* `{`, LF, `t` in one chunk: the passes from json to string, then the return
WriteTerminatesWitness ==
    /\ pc = "idle" /\ nwrites = 1 /\ ec = "ok"
    /\ buf = <<"{", "\n", "t">> /\ p = 2
    /\ current_state(st_stack_) = "string"

\* C18: write reports a syntax error only with the cursor on a byte of the
\* chunk, the one that does not fit; a pass entered with no byte left sets no
\* syntax error, and in value, object, colon, ws and the partly matched
\* literal states it returns at once with stack, events and error as they
\* were; so a write of an empty chunk never ends in a syntax error.
SuspendingStates ==
    {"value", "object", "colon", "ws",
     "true_1", "true_2", "true_3",
     "false_1", "false_2", "false_3", "false_4",
     "null_1", "null_2", "null_3"}

ExhaustionIsNoError ==
    /\ (pc = "idle" /\ ec = "syntax") => p < Len(buf)
    /\ (pc = "loop" /\ p = Len(buf))
          => LET c == Dispatch(Current)
             IN  /\ c.ec # "syntax"
                 /\ current_state(st_stack_) \in SuspendingStates
                      => /\ c.ret
                         /\ c.stack = st_stack_
                         /\ c.events = events
                         /\ c.ec = "ok"
    /\ (Returned /\ buf = <<>>) => ec # "syntax"

\* `tr`, then an empty chunk: two matched, still waiting for `u`
ExhaustionWitness ==
    /\ Returned /\ ec = "ok" /\ nwrites = 2
    /\ Input = <<"t", "r">> /\ buf = <<>>
    /\ current_state(st_stack_) = "true_2"

----------------------------------------------------------------------------
(* The members arm on its own.  The member arm leaves members under        *)
(* element, colon, ws and string; the parser is started here where those   *)
(* four have popped, with members on top of the trailing ws, and is handed *)
(* the bytes that follow the member, in chunks of at least one byte (the   *)
(* arm reads *p before anything else).  doc is what follows the member,    *)
(* events are those from here on.                                          *)
MembersInit ==
    /\ doc \in Docs
    /\ ndebug \in BOOLEAN
    /\ failAt = 0
    /\ fed = 0
    /\ nwrites = 0
    /\ st_stack_ = <<"ws", "members">>
    /\ events = <<>>
    /\ evpos = <<>>
    /\ ec = "ok"
    /\ pc = "idle"
    /\ buf = <<>>
    /\ p = 0
    /\ base = 0
    /\ snap = <<>>
    /\ trap = "none"
    /\ bufs = <<>>
    /\ vcall = NoCall

MembersNext ==
    \/ \E k \in 1 .. (Len(doc) - fed) : Write(k)
    \/ Loop
    \/ WriteEof

MembersSpec == MembersInit /\ [][MembersNext]_vars

ClosingObjectOfTheCode ==
    (pc = "loop" /\ current_state(st_stack_) = "members" /\ p < Len(buf))
        => LET c == Dispatch(Current)
           IN  /\ c.ret
               /\ c.stack = st_stack_
               /\ c.ec # "syntax"
               /\ buf[p + 1] = "}"
                    => /\ c.p = p + 1
                       /\ c.events = Append(events, "on_object_end")
               /\ buf[p + 1] # "}"
                    => /\ c.p = p
                       /\ c.events = events
                       /\ c.ec = ec

\* members is not on top in any state the parser reaches from json
MembersNeverOnTop == current_state(st_stack_) # "members"

\* C20: once string, number or array_ is on top of the stack, no step of a
\* later write changes the stack or the events, moves the cursor off the
\* start of its chunk or sets an error, and write_eof reports a syntax error;
\* so colon and members are never on top, and every on_object_end follows its
\* on_object_begin with nothing but whitespace between the braces.
NoMemberClosed ==
    \A i \in 1 .. Len(events) :
        events[i] = "on_object_end"
            => /\ i > 1
               /\ events[i - 1] = "on_object_begin"
               /\ \A j \in (evpos[i - 1] + 1) .. (evpos[i] - 1) : is_ws(doc[j])

PlaceholdersAbsorb ==
    /\ [][current_state(st_stack_) \in Placeholders
             => /\ st_stack_' = st_stack_
                /\ events' = events
                /\ p' \in {p, 0}
                /\ ec' = "sink" => ec = "sink"
                /\ ec' = "syntax" <=> pc' = "eof"]_vars
    /\ [](current_state(st_stack_) \in Placeholders
             => (pc = "eof" <=> ec = "syntax"))
    /\ [](current_state(st_stack_) \notin {"colon", "members"})
    /\ []NoMemberClosed

\* `{"` then `":0}` then write_eof: the second chunk was left untouched
PlaceholdersWitness ==
    /\ pc = "eof" /\ ec = "syntax"
    /\ nwrites = 2 /\ Len(buf) = 4 /\ p = 0
    /\ st_stack_ = <<"ws", "members", "element", "colon", "ws", "string">>
    /\ events = <<"on_object_begin">>

====
